---- MODULE Spec2Model ----
(***************************************************************************)
(* Department-level extraction and student promotion of the school         *)
(* backend.  Strings are sequences of one-character strings, so that       *)
(* trim(), toLowerCase() and includes() are computed character by          *)
(* character as the JavaScript runtime computes them.                      *)
(***************************************************************************)
EXTENDS Integers, Sequences, FiniteSets, TLC

(***************************************************************************)
(* Bounds of the model.                                                    *)
(***************************************************************************)
\* longest run of whitespace put in front of and behind a name
MaxPad == 1

\* most departments ever inserted (the identity column is capped here)
NumDepts == 3

\* most students ever inserted
NumStudents == 1

(***************************************************************************)
(* JavaScript string primitives used by the extractor.                     *)
(***************************************************************************)
UpperLetters ==
    <<"A","B","C","D","E","F","G","H","I","J","K","L","M",
      "N","O","P","Q","R","S","T","U","V","W","X","Y","Z">>

LowerLetters ==
    <<"a","b","c","d","e","f","g","h","i","j","k","l","m",
      "n","o","p","q","r","s","t","u","v","w","x","y","z">>

\* the characters String.prototype.trim() removes (those the model draws)
WhiteSpace == {" ", "\t", "\n"}

\* the lower-case letter of each upper-case letter
lowerCaseOf ==
    [A |-> "a", B |-> "b", C |-> "c", D |-> "d", E |-> "e", F |-> "f", G |-> "g",
     H |-> "h", I |-> "i", J |-> "j", K |-> "k", L |-> "l", M |-> "m", N |-> "n",
     O |-> "o", P |-> "p", Q |-> "q", R |-> "r", S |-> "s", T |-> "t", U |-> "u",
     V |-> "v", W |-> "w", X |-> "x", Y |-> "y", Z |-> "z"]

toLowerCaseChar(c) == IF c \in DOMAIN lowerCaseOf THEN lowerCaseOf[c] ELSE c

\* the upper-case letter of each lower-case letter
upperCaseOf ==
    [a |-> "A", b |-> "B", c |-> "C", d |-> "D", e |-> "E", f |-> "F", g |-> "G",
     h |-> "H", i |-> "I", j |-> "J", k |-> "K", l |-> "L", m |-> "M", n |-> "N",
     o |-> "O", p |-> "P", q |-> "Q", r |-> "R", s |-> "S", t |-> "T", u |-> "U",
     v |-> "V", w |-> "W", x |-> "X", y |-> "Y", z |-> "Z"]

toUpperCaseChar(c) == IF c \in DOMAIN upperCaseOf THEN upperCaseOf[c] ELSE c

\* a toLowerCase that leaves the text as it is
keepCase(s) == s

toLowerCase(s) == [i \in 1..Len(s) |-> toLowerCaseChar(s[i])]

RECURSIVE trimStart(_)
trimStart(s) ==
    IF s # <<>> /\ Head(s) \in WhiteSpace THEN trimStart(Tail(s)) ELSE s

RECURSIVE trimEnd(_)
trimEnd(s) ==
    IF s # <<>> /\ s[Len(s)] \in WhiteSpace
    THEN trimEnd(SubSeq(s, 1, Len(s) - 1))
    ELSE s

trim(s) == trimEnd(trimStart(s))

\* the whole string compared instead of searched
equals(s, p) == s = p

\* String.prototype.includes: p occurs in s as a contiguous substring
includes(s, p) ==
    \E i \in 0..(Len(s) - Len(p)) :
        \A j \in 1..Len(p) : s[i + j] = p[j]

DigitChars == <<"0","1","2","3","4","5","6","7","8","9">>

\* the decimal text a template literal `${i}` produces for 1 <= i <= 99
numberToString(i) ==
    IF i < 10
    THEN <<DigitChars[i + 1]>>
    ELSE <<DigitChars[(i \div 10) + 1], DigitChars[(i % 10) + 1]>>

(***************************************************************************)
(* src/lib/level-extractor.ts                                              *)
(***************************************************************************)
\* the value returned when no pattern matches
null == -1

lowerNurseryPattern == <<"l","o","w","e","r"," ","n","u","r","s","e","r","y">>
upperNurseryPattern == <<"u","p","p","e","r"," ","n","u","r","s","e","r","y">>

kg1Patterns == { <<"k","g","-","1">>, <<"k","g"," ","1">>, <<"k","g","1">> }
kg2Patterns == { <<"k","g","-","2">>, <<"k","g"," ","2">>, <<"k","g","2">> }

\* the pattern forms with the bare number among them
patternsWithBareNumber(t) ==
    { <<"c","l","a","s","s"," ">> \o t,
      <<"c","l","a","s","s","-">> \o t,
      <<"c","l","a","s","s">> \o t,
      <<"s","t","d"," ">> \o t,
      <<"s","t","d","-">> \o t,
      <<"s","t","d">> \o t,
      t }

\* the pattern forms without the two written in one word
patternsSeparated(t) ==
    { <<"c","l","a","s","s"," ">> \o t,
      <<"c","l","a","s","s","-">> \o t,
      <<"s","t","d"," ">> \o t,
      <<"s","t","d","-">> \o t }

\* the six pattern forms built around a number or numeral text t
patterns(t) ==
    { <<"c","l","a","s","s"," ">> \o t,
      <<"c","l","a","s","s","-">> \o t,
      <<"c","l","a","s","s">> \o t,
      <<"s","t","d"," ">> \o t,
      <<"s","t","d","-">> \o t,
      <<"s","t","d">> \o t }

romanNumerals ==
    << <<"I">>, <<"I","I">>, <<"I","I","I">>, <<"I","V">>, <<"V">>,
       <<"V","I">>, <<"V","I","I">>, <<"V","I","I","I">>, <<"I","X">>,
       <<"X">>, <<"X","I">>, <<"X","I","I">> >>

\* the numeric loop run upwards, "for (let i = 1; i <= 12; i++)"
arabicLoopAscending(trimmed, i) ==
    LET matching == { k \in 1..i :
                        \E p \in patterns(numberToString(k)) : includes(trimmed, p) }
    IN  IF matching = {} THEN 0
        ELSE CHOOSE k \in matching : \A m \in matching : k <= m

\* the loop "for (let i = 12; i >= 1; i--)": the first i, counting down, one of
\* whose patterns is contained in trimmed; 0 when the loop ends without a match
RECURSIVE arabicLoop(_, _)
arabicLoop(trimmed, i) ==
    IF i < 1 THEN 0
    ELSE IF \E p \in patterns(numberToString(i)) : includes(trimmed, p)
         THEN i
         ELSE arabicLoop(trimmed, i - 1)

\* the Roman loop run downwards from the last numeral
romanLoopDescending(trimmed, i) ==
    LET matching == { k \in i..(Len(romanNumerals) - 1) :
                        \E p \in patterns(romanNumerals[k + 1]) :
                            includes(trimmed, toLowerCase(p)) }
    IN  IF matching = {} THEN -1
        ELSE CHOOSE k \in matching : \A m \in matching : k >= m

\* the loop "for (let i = 0; i < romanNumerals.length; i++)": the first index,
\* counting up, whose lower-cased patterns match; -1 when none does
RECURSIVE romanLoop(_, _)
romanLoop(trimmed, i) ==
    IF i >= Len(romanNumerals) THEN -1
    ELSE IF \E p \in patterns(romanNumerals[i + 1]) :
                includes(trimmed, toLowerCase(p))
         THEN i
         ELSE romanLoop(trimmed, i + 1)

\* the numeric class given the offset of the Roman pass, 4 + i
extractLevelOffsetFour(name) ==
    LET trimmed == toLowerCase(trim(name))
        a == arabicLoop(trimmed, 12)
        r == romanLoop(trimmed, 0)
    IN  IF includes(trimmed, lowerNurseryPattern) THEN 0
        ELSE IF includes(trimmed, upperNurseryPattern) THEN 1
        ELSE IF \E p \in kg1Patterns : includes(trimmed, p) THEN 2
        ELSE IF \E p \in kg2Patterns : includes(trimmed, p) THEN 3
        ELSE IF a # 0 THEN 4 + a
        ELSE IF r # -1 THEN 4 + r
        ELSE null

\* the class and std rules tried before the nursery and KG rules
extractLevelClassFirst(name) ==
    LET trimmed == toLowerCase(trim(name))
        a == arabicLoop(trimmed, 12)
        r == romanLoop(trimmed, 0)
    IN  IF a # 0 THEN 3 + a
        ELSE IF includes(trimmed, lowerNurseryPattern) THEN 0
        ELSE IF includes(trimmed, upperNurseryPattern) THEN 1
        ELSE IF \E p \in kg1Patterns : includes(trimmed, p) THEN 2
        ELSE IF \E p \in kg2Patterns : includes(trimmed, p) THEN 3
        ELSE IF r # -1 THEN 4 + r
        ELSE null

extractLevelFromDepartmentName(name) ==
    LET trimmed == toLowerCase(trim(name))
        a == arabicLoop(trimmed, 12)
        r == romanLoop(trimmed, 0)
    IN  IF includes(trimmed, lowerNurseryPattern) THEN 0
        ELSE IF includes(trimmed, upperNurseryPattern) THEN 1
        ELSE IF \E p \in kg1Patterns : includes(trimmed, p) THEN 2
        ELSE IF \E p \in kg2Patterns : includes(trimmed, p) THEN 3
        ELSE IF a # 0 THEN 3 + a
        ELSE IF r # -1 THEN 4 + r
        ELSE null

(***************************************************************************)
(* The copy of the extractor kept beside the schema (part_000): the same   *)
(* nursery and KG checks, the numeric loop counting up, no Roman pass.     *)
(***************************************************************************)
\* the loop "for (let i = 1; i <= 12; i++)": the first i, counting up, one of
\* whose patterns is contained in trimmed; 0 when the loop ends without a match
RECURSIVE schemaArabicLoop(_, _)
schemaArabicLoop(trimmed, i) ==
    IF i > 12 THEN 0
    ELSE IF \E p \in patterns(numberToString(i)) : includes(trimmed, p)
         THEN i
         ELSE schemaArabicLoop(trimmed, i + 1)

schemaExtractLevelFromDepartmentName(name) ==
    LET trimmed == toLowerCase(trim(name))
        a == schemaArabicLoop(trimmed, 1)
    IN  IF includes(trimmed, lowerNurseryPattern) THEN 0
        ELSE IF includes(trimmed, upperNurseryPattern) THEN 1
        ELSE IF \E p \in kg1Patterns : includes(trimmed, p) THEN 2
        ELSE IF \E p \in kg2Patterns : includes(trimmed, p) THEN 3
        ELSE IF a # 0 THEN 3 + a
        ELSE null

(***************************************************************************)
(* Inputs of the extractor: the canonical labels of the level table, in    *)
(* any letter case and with whitespace around them.                        *)
(***************************************************************************)
\* "Class " followed by a number or numeral text
classLabel(t) == <<"C","l","a","s","s"," ">> \o t

NamedLabels ==
    { <<"L","o","w","e","r"," ","N","u","r","s","e","r","y">>,
      <<"U","p","p","e","r"," ","N","u","r","s","e","r","y">>,
      <<"K","G","-","1">>,
      <<"K","G","-","2">> }

ArabicLabels == { classLabel(numberToString(n)) : n \in 1..12 }

RomanLabels == { classLabel(romanNumerals[n]) : n \in 1..12 }

Labels == NamedLabels \cup ArabicLabels \cup RomanLabels

\* names outside the level table: one without a pattern and one with two
\* spaces inside "Class 1"
OtherLabels ==
    { <<"G","r","a","d","e"," ","5">>,
      <<"C","l","a","s","s"," "," ","1">> }

\* the whitespace characters the model puts around a name
PadChars == {" ", "\t"}

isLetter(c) == \E i \in 1..26 : UpperLetters[i] = c \/ LowerLetters[i] = c

swapCase(c) == IF toLowerCaseChar(c) = c THEN toUpperCaseChar(c) ELSE toLowerCaseChar(c)

leadingPad(s) == Len(s) - Len(trimStart(s))

trailingPad(s) == Len(s) - Len(trimEnd(s))

VARIABLES
    label,        \* the canonical label, or the parts, the input was spelled from
    name,         \* the argument of extractLevelFromDepartmentName
    extraction,   \* [done, result]: the call and the value it returned
    departments,  \* rows of the departments table
    students,     \* rows of the students table
    nextDepartmentId,  \* next value of departments.id (generatedAlwaysAsIdentity)
    nextStudentId,     \* next value of students.id (generatedAlwaysAsIdentity)
    request,      \* the HTTP request handled last
    response,     \* the response sent to it
    reqs,         \* the promote requests in flight, each between two awaits
    client        \* what the caller kept of the responses it got

extractVars == <<label, name, extraction>>

dbVars == <<departments, students, nextDepartmentId, nextStudentId>>

httpVars == <<request, response, reqs>>

vars == <<label, name, extraction, departments, students,
          nextDepartmentId, nextStudentId, request, response, reqs, client>>

(***************************************************************************)
(* The database: schema (tables, identity columns, unique and foreign-key  *)
(* constraints) and the queries the handlers run.                          *)
(***************************************************************************)
\* departments row: id, code (unique), name, level
departmentRow(id, code, n, level) ==
    [id |-> id, code |-> code, name |-> n, level |-> level]

\* students row: id, departmentId (references departments.id, on delete cascade)
studentRow(id, departmentId) == [id |-> id, departmentId |-> departmentId]

\* db.select().from(students).where(eq(students.id, id)).limit(1)
selectStudentById(st, id) == { s \in st : s.id = id }

\* db.select().from(departments).where(eq(departments.id, id)).limit(1)
selectDepartmentById(dp, id) == { d \in dp : d.id = id }

\* the only row of a one-row result: result[0]
first(rows) == CHOOSE r \in rows : TRUE

\* the sequences that list every row of S once, by non-decreasing level
\* (ORDER BY level leaves the order of rows of equal level open)
orderByLevel(S) ==
    { q \in [1..Cardinality(S) -> S] :
        /\ \A i, j \in 1..Cardinality(S) : i # j => q[i] # q[j]
        /\ \A i, j \in 1..Cardinality(S) : i < j => q[i].level <= q[j].level }

\* the row sequence of a result of at most one row
asSeq(rows) == IF rows = {} THEN <<>> ELSE <<first(rows)>>

\* res.status(status).json({error | data, currentLevel, targetLevel, currentDepartmentId})
json(status, error, data, currentLevel, targetLevel, currentDepartmentId) ==
    [status |-> status, error |-> error, data |-> data,
     currentLevel |-> currentLevel, targetLevel |-> targetLevel,
     currentDepartmentId |-> currentDepartmentId]

jsonError(status, error) == json(status, error, <<>>, null, null, 0)

jsonData(status, data) == json(status, "", data, null, null, 0)

noRequest == [op |-> "none", id |-> 0, departmentId |-> 0]

\* the promote requests that may be in flight together
Reqs == {1, 2}

\* a promote request not yet received
idle ==
    [pc |-> "idle", id |-> 0, departmentId |-> 0, studentDepartmentId |-> 0,
     currentLevel |-> null, response |-> json(0, "", <<>>, null, null, 0)]

InitDb ==
    /\ departments = {}
    /\ students = {}
    /\ nextDepartmentId = 1
    /\ nextStudentId = 1
    /\ request = noRequest
    /\ response = jsonData(0, <<>>)
    /\ reqs \in [Reqs -> {idle}]

\* a caller that has kept nothing: no listing of available promotions, no
\* promotion it was told succeeded, and a count of zero such promotions
noClient ==
    [listedFor |-> 0, listed |-> {}, promoted |-> [id |-> 0, departmentId |-> 0],
     promotions |-> 0]

InitNoExtract ==
    /\ label = <<>>
    /\ name = <<>>
    /\ extraction = [done |-> FALSE, result |-> null]

(***************************************************************************)
(* src/routes/departments.ts                                               *)
(***************************************************************************)
toUpperCase(s) == [i \in 1..Len(s) |-> toUpperCaseChar(s[i])]

\* String.prototype.replace(/\s+/g, "_"): every run of whitespace becomes one "_"
RECURSIVE replaceWhitespace(_)
replaceWhitespace(s) ==
    IF s = <<>> THEN <<>>
    ELSE IF Head(s) \in WhiteSpace
         THEN <<"_">> \o replaceWhitespace(trimStart(s))
         ELSE <<Head(s)>> \o replaceWhitespace(Tail(s))

\* length of departments.code, varchar(50)
CodeLength == 50

\* String.prototype.substring(0, n)
substring(s, n) == SubSeq(s, 1, IF Len(s) < n THEN Len(s) ELSE n)

\* const code = name.toUpperCase().replace(/\s+/g, "_").substring(0, 50)
departmentCode(n) == substring(replaceWhitespace(toUpperCase(n)), CodeLength)

\* the names the model sends in a department request
DeptNames ==
    { <<>>,
      <<"A","r","t","s">>,
      <<"L","o","w","e","r"," ","N","u","r","s","e","r","y">>,
      classLabel(<<"1","2">>) }

\* what the rest of a department request body carries
DeptFields ==
    {"complete", "noDescription", "noBanner", "noHeadTeacher", "unknownHeadTeacher"}

\* the response is sent and no table is written
Rejected(resp) ==
    /\ response' = resp
    /\ UNCHANGED dbVars

\* the checks of name, description, banner and head teacher that open the
\* POST, PUT and PATCH handlers: the error they answer with, "" when all pass
requiredFieldError(n, fields) ==
    IF n = <<>> THEN "Department name is required"
    ELSE IF fields = "noDescription" THEN "Department description is required"
    ELSE IF fields = "noBanner" THEN "Department banner is required"
    ELSE IF fields = "noHeadTeacher" THEN "Department head teacher is required"
    ELSE ""

levelFormatError ==
    "Department name must be in format: Lower Nursery, Upper Nursery, KG-1, KG-2, Class 1-12, or with sections (e.g., Class 8A, Class 8B)"

\* the call "const level = extractLevelFromDepartmentName(name)" of a handler:
\* its argument and result, the call not made when a required field is missing
Extracted(n, fields, level) ==
    /\ name' = n
    /\ extraction' = IF requiredFieldError(n, fields) # ""
                     THEN [done |-> FALSE, result |-> null]
                     ELSE [done |-> TRUE, result |-> level]

\* router.post("/")
CreateDepartment(n, fields) ==
    LET code == departmentCode(n)
        level == extractLevelFromDepartmentName(n)
        row == departmentRow(nextDepartmentId, code, n, level)
    IN  /\ request' = [op |-> "POST /departments", id |-> 0, departmentId |-> 0]
        /\ IF requiredFieldError(n, fields) # ""
           THEN Rejected(jsonError(400, requiredFieldError(n, fields)))
           ELSE IF level = null
           THEN Rejected(jsonError(400, levelFormatError))
           ELSE IF \/ \E d \in departments : d.code = code
                   \/ fields = "unknownHeadTeacher"
           THEN \* the insert violates departments_code_unique or the head teacher key
                Rejected(jsonError(500, "Failed to create department"))
           ELSE /\ nextDepartmentId <= NumDepts
                /\ departments' = departments \cup {row}
                /\ nextDepartmentId' = nextDepartmentId + 1
                /\ response' = jsonData(201, <<row>>)
                /\ UNCHANGED <<students, nextStudentId>>
        /\ Extracted(n, fields, level)
        /\ UNCHANGED <<label, reqs>>

\* a PUT that keeps the stored level when the new name has none
PutDepartmentKeepLevel(id, n, fields) ==
    LET level == extractLevelFromDepartmentName(n)
        updated == { [d EXCEPT !.name = n, !.level = IF level = null THEN d.level ELSE level] :
                        d \in selectDepartmentById(departments, id) }
    IN  /\ request' = [op |-> "PUT /departments/:id", id |-> id, departmentId |-> 0]
        /\ IF requiredFieldError(n, fields) # ""
           THEN Rejected(jsonError(400, requiredFieldError(n, fields)))
           ELSE IF fields = "unknownHeadTeacher" /\ updated # {}
           THEN \* the update violates the head teacher key
                Rejected(jsonError(500, "Failed to update department"))
           ELSE IF updated = {}
           THEN Rejected(jsonError(404, "Department not found"))
           ELSE /\ departments' =
                       (departments \ selectDepartmentById(departments, id)) \cup updated
                /\ response' = jsonData(200, asSeq(updated))
                /\ UNCHANGED <<students, nextDepartmentId, nextStudentId>>
        /\ Extracted(n, fields, level)
        /\ UNCHANGED <<label, reqs>>

\* a PUT whose set clause leaves the level out
PutDepartmentNameOnly(id, n, fields) ==
    LET level == extractLevelFromDepartmentName(n)
        updated == { [d EXCEPT !.name = n, !.level = d.level] :
                        d \in selectDepartmentById(departments, id) }
    IN  /\ request' = [op |-> "PUT /departments/:id", id |-> id, departmentId |-> 0]
        /\ IF requiredFieldError(n, fields) # ""
           THEN Rejected(jsonError(400, requiredFieldError(n, fields)))
           ELSE IF level = null
           THEN Rejected(jsonError(400, levelFormatError))
           ELSE IF fields = "unknownHeadTeacher" /\ updated # {}
           THEN \* the update violates the head teacher key
                Rejected(jsonError(500, "Failed to update department"))
           ELSE IF updated = {}
           THEN Rejected(jsonError(404, "Department not found"))
           ELSE /\ departments' =
                       (departments \ selectDepartmentById(departments, id)) \cup updated
                /\ response' = jsonData(200, asSeq(updated))
                /\ UNCHANGED <<students, nextDepartmentId, nextStudentId>>
        /\ Extracted(n, fields, level)
        /\ UNCHANGED <<label, reqs>>

\* a PUT that leaves a department alone while students are assigned to it
PutDepartmentUnassignedOnly(id, n, fields) ==
    LET level == extractLevelFromDepartmentName(n)
        updated == { [d EXCEPT !.name = n, !.level = level] :
                        d \in selectDepartmentById(departments, id) }
    IN  /\ request' = [op |-> "PUT /departments/:id", id |-> id, departmentId |-> 0]
        /\ IF requiredFieldError(n, fields) # ""
           THEN Rejected(jsonError(400, requiredFieldError(n, fields)))
           ELSE IF level = null
           THEN Rejected(jsonError(400, levelFormatError))
           ELSE IF fields = "unknownHeadTeacher" /\ updated # {}
           THEN Rejected(jsonError(500, "Failed to update department"))
           ELSE IF updated = {}
           THEN Rejected(jsonError(404, "Department not found"))
           ELSE IF \E st \in students : st.departmentId = id
           THEN Rejected(jsonError(400, "Department has students"))
           ELSE /\ departments' =
                       (departments \ selectDepartmentById(departments, id)) \cup updated
                /\ response' = jsonData(200, asSeq(updated))
                /\ UNCHANGED <<students, nextDepartmentId, nextStudentId>>
        /\ Extracted(n, fields, level)
        /\ UNCHANGED <<label, reqs>>

\* router.put("/:id")
PutDepartment(id, n, fields) ==
    LET level == extractLevelFromDepartmentName(n)
        updated == { [d EXCEPT !.name = n, !.level = level] :
                        d \in selectDepartmentById(departments, id) }
    IN  /\ request' = [op |-> "PUT /departments/:id", id |-> id, departmentId |-> 0]
        /\ IF requiredFieldError(n, fields) # ""
           THEN Rejected(jsonError(400, requiredFieldError(n, fields)))
           ELSE IF level = null
           THEN Rejected(jsonError(400, levelFormatError))
           ELSE IF fields = "unknownHeadTeacher" /\ updated # {}
           THEN \* the update violates the head teacher key
                Rejected(jsonError(500, "Failed to update department"))
           ELSE IF updated = {}
           THEN Rejected(jsonError(404, "Department not found"))
           ELSE /\ departments' =
                       (departments \ selectDepartmentById(departments, id)) \cup updated
                /\ response' = jsonData(200, asSeq(updated))
                /\ UNCHANGED <<students, nextDepartmentId, nextStudentId>>
        /\ Extracted(n, fields, level)
        /\ UNCHANGED <<label, reqs>>

\* router.patch("/:id"), the same handler text
PatchDepartment(id, n, fields) ==
    LET level == extractLevelFromDepartmentName(n)
        updated == { [d EXCEPT !.name = n, !.level = level] :
                        d \in selectDepartmentById(departments, id) }
    IN  /\ request' = [op |-> "PATCH /departments/:id", id |-> id, departmentId |-> 0]
        /\ IF requiredFieldError(n, fields) # ""
           THEN Rejected(jsonError(400, requiredFieldError(n, fields)))
           ELSE IF level = null
           THEN Rejected(jsonError(400, levelFormatError))
           ELSE IF fields = "unknownHeadTeacher" /\ updated # {}
           THEN \* the update violates the head teacher key
                Rejected(jsonError(500, "Failed to update department"))
           ELSE IF updated = {}
           THEN Rejected(jsonError(404, "Department not found"))
           ELSE /\ departments' =
                       (departments \ selectDepartmentById(departments, id)) \cup updated
                /\ response' = jsonData(200, asSeq(updated))
                /\ UNCHANGED <<students, nextDepartmentId, nextStudentId>>
        /\ Extracted(n, fields, level)
        /\ UNCHANGED <<label, reqs>>

\* router.delete("/:id"); the students of the department go with it (on delete cascade)
DeleteDepartment(id) ==
    LET deleted == selectDepartmentById(departments, id)
    IN  /\ request' = [op |-> "DELETE /departments/:id", id |-> id, departmentId |-> 0]
        /\ IF deleted = {}
           THEN Rejected(jsonError(404, "Department not found"))
           ELSE /\ departments' = departments \ deleted
                /\ students' = { s \in students : s.departmentId # id }
                /\ response' = jsonData(200, asSeq(deleted))
                /\ UNCHANGED <<nextDepartmentId, nextStudentId>>
        /\ UNCHANGED <<extractVars, reqs>>

(***************************************************************************)
(* The students routes.  A student's name, email and the other personal    *)
(* columns play no part in promotion: the model keeps id and departmentId  *)
(* and takes the outcome of the email lookup as an input.                  *)
(***************************************************************************)
\* some department has this id: the foreign key students.department_id holds
departmentExists(dp, id) == selectDepartmentById(dp, id) # {}

\* router.post("/")
CreateStudent(departmentId, complete, emailExists) ==
    LET row == studentRow(nextStudentId, departmentId)
    IN  /\ request' = [op |-> "POST /students", id |-> 0,
                       departmentId |-> departmentId]
        /\ emailExists => students # {}
        /\ IF ~complete \/ departmentId = 0
           THEN Rejected(jsonError(400,
                    "Missing required fields: name, age, gender, admissionDate, departmentId"))
           ELSE IF emailExists
           THEN Rejected(jsonError(400, "Email already exists"))
           ELSE IF ~departmentExists(departments, departmentId)
           THEN Rejected(jsonError(500, "Failed to create student"))
           ELSE /\ nextStudentId <= NumStudents
                /\ students' = students \cup {row}
                /\ nextStudentId' = nextStudentId + 1
                /\ response' = jsonData(201, <<row>>)
                /\ UNCHANGED <<departments, nextDepartmentId>>
        /\ UNCHANGED <<extractVars, reqs>>

\* an update that moves a student only to a department of a higher level
UpdateStudentToHigherOnly(id, departmentId, emailExists) ==
    LET existingStudent == selectStudentById(students, id)
        currentDept == selectDepartmentById(departments, first(existingStudent).departmentId)
        targetDept == selectDepartmentById(departments, departmentId)
        updated == { [s EXCEPT !.departmentId =
                          IF departmentId # 0 THEN departmentId ELSE s.departmentId] :
                        s \in existingStudent }
    IN  /\ request' = [op |-> "PUT /students/:id", id |-> id,
                       departmentId |-> departmentId]
        /\ emailExists => \E s \in students : s.id # id
        /\ IF existingStudent = {}
           THEN Rejected(jsonError(404, "Student not found"))
           ELSE IF emailExists
           THEN Rejected(jsonError(400, "Email already exists"))
           ELSE IF departmentId # 0 /\ ~departmentExists(departments, departmentId)
           THEN Rejected(jsonError(500, "Failed to update student"))
           ELSE IF /\ departmentId # 0
                   /\ currentDept # {}
                   /\ first(targetDept).level <= first(currentDept).level
           THEN Rejected(jsonError(400, "Can only promote to a higher level department"))
           ELSE /\ students' = (students \ existingStudent) \cup updated
                /\ response' = jsonData(200, asSeq(updated))
                /\ UNCHANGED <<departments, nextDepartmentId, nextStudentId>>
        /\ UNCHANGED <<extractVars, reqs>>

\* router.put("/:id"); departmentId = 0 stands for a body without departmentId
UpdateStudent(id, departmentId, emailExists) ==
    LET existingStudent == selectStudentById(students, id)
        updated == { [s EXCEPT !.departmentId =
                          IF departmentId # 0 THEN departmentId ELSE s.departmentId] :
                        s \in existingStudent }
    IN  /\ request' = [op |-> "PUT /students/:id", id |-> id,
                       departmentId |-> departmentId]
        /\ emailExists => \E s \in students : s.id # id
        /\ IF existingStudent = {}
           THEN Rejected(jsonError(404, "Student not found"))
           ELSE IF emailExists
           THEN Rejected(jsonError(400, "Email already exists"))
           ELSE IF departmentId # 0 /\ ~departmentExists(departments, departmentId)
           THEN Rejected(jsonError(500, "Failed to update student"))
           ELSE /\ students' = (students \ existingStudent) \cup updated
                /\ response' = jsonData(200, asSeq(updated))
                /\ UNCHANGED <<departments, nextDepartmentId, nextStudentId>>
        /\ UNCHANGED <<extractVars, reqs>>

\* router.delete("/:id")
DeleteStudent(id) ==
    LET existingStudent == selectStudentById(students, id)
    IN  /\ request' = [op |-> "DELETE /students/:id", id |-> id, departmentId |-> 0]
        /\ IF existingStudent = {}
           THEN Rejected(jsonError(404, "Student not found"))
           ELSE /\ students' = students \ existingStudent
                /\ response' = jsonData(200, <<>>)
                /\ UNCHANGED <<departments, nextDepartmentId, nextStudentId>>
        /\ UNCHANGED <<extractVars, reqs>>

\* a check that lets a target of equal level through
notStrictlyLower(targetLevel, currentLevel) == targetLevel < currentLevel

\* a check that refuses only a target of the very same level
sameLevel(targetLevel, currentLevel) == targetLevel = currentLevel

\* "if (targetDept[0]!.level <= currentLevel)": the promotion is refused
notHigherLevel(targetLevel, currentLevel) == targetLevel <= currentLevel

\* a filter that keeps the departments of the current level too
gte(level, currentLevel) == level >= currentLevel

\* gt(departments.level, currentLevel)
gt(level, currentLevel) == level > currentLevel

\* router.get("/:id/available-promotions")
AvailablePromotions(id) ==
    LET studentRecord == selectStudentById(students, id)
        student == first(studentRecord)
        currentDeptId == student.departmentId
        currentDept == selectDepartmentById(departments, currentDeptId)
        currentLevel == first(currentDept).level
        higher == { d \in departments : gt(d.level, currentLevel) }
    IN  /\ request' = [op |-> "GET /students/:id/available-promotions", id |-> id, departmentId |-> 0]
        /\ IF studentRecord = {}
           THEN response' = jsonError(404, "Student not found")
           ELSE IF currentDept = {}
           THEN response' = jsonError(404, "Current department not found")
           ELSE \E availableDepartments \in orderByLevel(higher) :
                    response' = json(200, "", availableDepartments,
                                     currentLevel, null, currentDeptId)
        /\ UNCHANGED <<dbVars, extractVars, reqs>>

\* a promotion whose update has no where clause: every student is moved
PromoteEveryStudent(id, departmentId) ==
    LET existingStudent == selectStudentById(students, id)
        student == first(existingStudent)
        currentDept == selectDepartmentById(departments, student.departmentId)
        currentLevel == first(currentDept).level
        targetDept == selectDepartmentById(departments, departmentId)
        targetLevel == first(targetDept).level
        promotedStudent == { [s EXCEPT !.departmentId = departmentId] :
                                s \in existingStudent }
    IN  /\ request' = [op |-> "POST /students/:id/promote", id |-> id,
                       departmentId |-> departmentId]
        /\ IF departmentId = 0
           THEN Rejected(jsonError(400, "Department ID is required"))
           ELSE IF existingStudent = {}
           THEN Rejected(jsonError(404, "Student not found"))
           ELSE IF currentDept = {}
           THEN Rejected(jsonError(404, "Current department not found"))
           ELSE IF targetDept = {}
           THEN Rejected(jsonError(404, "Target department not found"))
           ELSE IF notHigherLevel(targetLevel, currentLevel)
           THEN Rejected(json(400, "Can only promote to a higher level department",
                              <<>>, currentLevel, targetLevel, 0))
           ELSE /\ students' = { [s EXCEPT !.departmentId = departmentId] : s \in students }
                /\ response' = jsonData(200, asSeq(promotedStudent))
                /\ UNCHANGED <<departments, nextDepartmentId, nextStudentId>>
        /\ UNCHANGED <<extractVars, reqs>>

\* router.post("/:id/promote"); departmentId = 0 stands for a body without it
Promote(id, departmentId) ==
    LET existingStudent == selectStudentById(students, id)
        student == first(existingStudent)
        currentDept == selectDepartmentById(departments, student.departmentId)
        currentLevel == first(currentDept).level
        targetDept == selectDepartmentById(departments, departmentId)
        targetLevel == first(targetDept).level
        promotedStudent == { [s EXCEPT !.departmentId = departmentId] :
                                s \in existingStudent }
    IN  /\ request' = [op |-> "POST /students/:id/promote", id |-> id,
                       departmentId |-> departmentId]
        /\ IF departmentId = 0
           THEN Rejected(jsonError(400, "Department ID is required"))
           ELSE IF existingStudent = {}
           THEN Rejected(jsonError(404, "Student not found"))
           ELSE IF currentDept = {}
           THEN Rejected(jsonError(404, "Current department not found"))
           ELSE IF targetDept = {}
           THEN Rejected(jsonError(404, "Target department not found"))
           ELSE IF notHigherLevel(targetLevel, currentLevel)
           THEN Rejected(json(400, "Can only promote to a higher level department",
                              <<>>, currentLevel, targetLevel, 0))
           ELSE /\ students' = (students \ existingStudent) \cup promotedStudent
                /\ response' = jsonData(200, asSeq(promotedStudent))
                /\ UNCHANGED <<departments, nextDepartmentId, nextStudentId>>
        /\ UNCHANGED <<extractVars, reqs>>

(***************************************************************************)
(* The students routes handling one request after another.  The            *)
(* departments are in place: department k was created as "Class k" and     *)
(* then renamed, so its level is the one extracted from its present name.  *)
(***************************************************************************)
DeptIds == 1..NumDepts

StudentIds == 1..NumStudents

\* the names the departments carry when the students routes are exercised
PromotionLabels ==
    { <<"L","o","w","e","r"," ","N","u","r","s","e","r","y">>,
      <<"K","G","-","1">>,
      classLabel(<<"1">>),
      classLabel(<<"1","2">>) }

\* the departments table after POST "Class k" and PUT naming[k], for every k
departmentsNamed(naming) ==
    { departmentRow(k, departmentCode(classLabel(numberToString(k))), naming[k],
                    extractLevelFromDepartmentName(naming[k])) : k \in DOMAIN naming }

Init ==
    /\ \E naming \in [DeptIds -> PromotionLabels] : departments = departmentsNamed(naming)
    /\ nextDepartmentId = NumDepts + 1
    /\ students = {}
    /\ nextStudentId = 1
    /\ request = noRequest
    /\ response = jsonData(0, <<>>)
    /\ reqs \in [Reqs -> {idle}]
    /\ InitNoExtract
    /\ client = noClient

Next ==
    \/ \E d \in {0} \cup DeptIds, c \in BOOLEAN, e \in BOOLEAN : CreateStudent(d, c, e) /\ UNCHANGED client
    \/ \E id \in StudentIds, d \in {0} \cup DeptIds, e \in BOOLEAN : UpdateStudent(id, d, e) /\ UNCHANGED client
    \/ \E id \in StudentIds : DeleteStudent(id) /\ UNCHANGED client
    \/ \E id \in StudentIds : AvailablePromotions(id) /\ UNCHANGED client
    \/ \E id \in StudentIds, d \in {0} \cup DeptIds : Promote(id, d) /\ UNCHANGED client

Spec == Init /\ [][Next]_vars

(***************************************************************************)
(* The promotion check on every pair of levels: two departments carrying   *)
(* any two canonical labels, and one student in either of them.            *)
(***************************************************************************)
InitLevels ==
    /\ \E naming \in [{1, 2} -> NamedLabels \cup ArabicLabels] :
            departments = departmentsNamed(naming)
    /\ nextDepartmentId = 3
    /\ \E d \in {1, 2} : students = {studentRow(1, d)}
    /\ nextStudentId = 2
    /\ request = noRequest
    /\ response = jsonData(0, <<>>)
    /\ reqs \in [Reqs -> {idle}]
    /\ InitNoExtract
    /\ client = noClient

NextLevels ==
    \E id \in StudentIds, d \in {0} \cup DeptIds : Promote(id, d) /\ UNCHANGED client

SpecLevels == InitLevels /\ [][NextLevels]_vars

(***************************************************************************)
(* router.post("/:id/promote") between its awaits: the handler runs up to  *)
(* a database call, the call is answered, and the handler runs on to the   *)
(* next one.  Requests of other clients are handled in between.            *)
(***************************************************************************)
\* request r is answered with resp
Respond(r, resp) == reqs' = [reqs EXCEPT ![r].pc = "done", ![r].response = resp]

\* the request arrives; "if (!departmentId)" is checked and the student query sent
PromoteReceive(r, id, departmentId) ==
    /\ reqs[r].pc = "idle"
    /\ IF departmentId = 0
       THEN reqs' = [reqs EXCEPT ![r].pc = "done", ![r].id = id,
                                 ![r].response = jsonError(400, "Department ID is required")]
       ELSE reqs' = [reqs EXCEPT ![r].pc = "selectStudent", ![r].id = id,
                                 ![r].departmentId = departmentId]
    /\ UNCHANGED <<dbVars, extractVars, request, response>>

\* "const existingStudent = await db.select().from(students)..." and the check after it
PromoteSelectStudent(r) ==
    LET existingStudent == selectStudentById(students, reqs[r].id)
    IN  /\ reqs[r].pc = "selectStudent"
        /\ IF existingStudent = {}
           THEN Respond(r, jsonError(404, "Student not found"))
           ELSE reqs' = [reqs EXCEPT ![r].pc = "selectCurrentDept",
                            ![r].studentDepartmentId = first(existingStudent).departmentId]
        /\ UNCHANGED <<dbVars, extractVars, request, response>>

\* the current-department step without its length check: currentDept[0] of an
\* empty result is undefined, reading .level throws and the catch answers 500
PromoteSelectCurrentDeptUnchecked(r) ==
    LET currentDept == selectDepartmentById(departments, reqs[r].studentDepartmentId)
    IN  /\ reqs[r].pc = "selectCurrentDept"
        /\ IF currentDept = {}
           THEN Respond(r, jsonError(500, "Failed to promote student"))
           ELSE reqs' = [reqs EXCEPT ![r].pc = "selectTargetDept",
                                     ![r].currentLevel = first(currentDept).level]
        /\ UNCHANGED <<dbVars, extractVars, request, response>>

\* "const currentDept = await db.select().from(departments)..." and the check after it
PromoteSelectCurrentDept(r) ==
    LET currentDept == selectDepartmentById(departments, reqs[r].studentDepartmentId)
    IN  /\ reqs[r].pc = "selectCurrentDept"
        /\ IF currentDept = {}
           THEN Respond(r, jsonError(404, "Current department not found"))
           ELSE reqs' = [reqs EXCEPT ![r].pc = "selectTargetDept",
                                     ![r].currentLevel = first(currentDept).level]
        /\ UNCHANGED <<dbVars, extractVars, request, response>>

\* "const targetDept = await db.select().from(departments)..." and the two checks after it
PromoteSelectTargetDept(r) ==
    LET targetDept == selectDepartmentById(departments, reqs[r].departmentId)
        currentLevel == reqs[r].currentLevel
    IN  /\ reqs[r].pc = "selectTargetDept"
        /\ IF targetDept = {}
           THEN Respond(r, jsonError(404, "Target department not found"))
           ELSE IF notHigherLevel(first(targetDept).level, currentLevel)
           THEN Respond(r, json(400, "Can only promote to a higher level department",
                                <<>>, currentLevel, first(targetDept).level, 0))
           ELSE reqs' = [reqs EXCEPT ![r].pc = "update"]
        /\ UNCHANGED <<dbVars, extractVars, request, response>>

\* "const promotedStudent = await db.update(students)..." and the answer
PromoteUpdate(r) ==
    LET matched == selectStudentById(students, reqs[r].id)
        promotedStudent == { [s EXCEPT !.departmentId = reqs[r].departmentId] :
                                s \in matched }
    IN  /\ reqs[r].pc = "update"
        /\ IF matched # {} /\ ~departmentExists(departments, reqs[r].departmentId)
           THEN \* the update violates the foreign key and throws
                /\ Respond(r, jsonError(500, "Failed to promote student"))
                /\ UNCHANGED students
           ELSE /\ students' = (students \ matched) \cup promotedStudent
                /\ Respond(r, jsonData(200, asSeq(promotedStudent)))
        /\ UNCHANGED <<departments, nextDepartmentId, nextStudentId,
                       extractVars, request, response>>

\* department k is "Class k", of level 3 + k, and student 1 is in one of them
InitConc ==
    /\ departments = departmentsNamed([k \in DeptIds |-> classLabel(numberToString(k))])
    /\ nextDepartmentId = NumDepts + 1
    /\ \E d \in DeptIds : students = {studentRow(1, d)}
    /\ nextStudentId = 2
    /\ request = noRequest
    /\ response = jsonData(0, <<>>)
    /\ reqs \in [Reqs -> {idle}]
    /\ InitNoExtract
    /\ client = noClient

NextConc ==
    \/ \E r \in Reqs, id \in StudentIds, d \in {0} \cup DeptIds : PromoteReceive(r, id, d) /\ UNCHANGED client
    \/ \E r \in Reqs : PromoteSelectStudent(r) /\ UNCHANGED client
    \/ \E r \in Reqs : PromoteSelectCurrentDept(r) /\ UNCHANGED client
    \/ \E r \in Reqs : PromoteSelectTargetDept(r) /\ UNCHANGED client
    \/ \E r \in Reqs : PromoteUpdate(r) /\ UNCHANGED client
    \/ \E id \in DeptIds : DeleteDepartment(id) /\ UNCHANGED client
    \/ \E id \in StudentIds : DeleteStudent(id) /\ UNCHANGED client

SpecConc == InitConc /\ [][NextConc]_vars

(***************************************************************************)
(* A caller that lists the available promotions of a student, promotes,    *)
(* and meanwhile the student is moved or a department renamed.  The caller *)
(* keeps the last listing it got and the last promotion it was told        *)
(* succeeded, for as long as no table has been written since.              *)
(***************************************************************************)
\* the names the departments carry and are renamed to
ClientLabels ==
    { <<"L","o","w","e","r"," ","N","u","r","s","e","r","y">>,
      classLabel(<<"1","2">>) }

\* the caller reads the response of the step: a 200 listing replaces the one
\* it kept, a 200 promotion is kept, any other write to the tables ends the
\* time in which the kept promotion is the last thing that happened
Remember ==
    client' =
        IF /\ request'.op = "GET /students/:id/available-promotions"
           /\ response'.status = 200
        THEN [client EXCEPT !.listedFor = request'.id,
                            !.listed = { response'.data[i].id :
                                            i \in DOMAIN response'.data }]
        ELSE IF /\ request'.op = "POST /students/:id/promote"
                /\ response'.status = 200
        THEN [client EXCEPT !.promoted = [id |-> request'.id,
                                          departmentId |-> request'.departmentId]]
        ELSE IF departments' # departments \/ students' # students
        THEN [client EXCEPT !.promoted = noClient.promoted]
        ELSE client

InitClient ==
    /\ \E naming \in [DeptIds -> ClientLabels] : departments = departmentsNamed(naming)
    /\ nextDepartmentId = NumDepts + 1
    /\ \E d \in DeptIds : students = {studentRow(1, d)}
    /\ nextStudentId = 2
    /\ request = noRequest
    /\ response = jsonData(0, <<>>)
    /\ reqs \in [Reqs -> {idle}]
    /\ InitNoExtract
    /\ client = noClient

NextClient ==
    \/ \E id \in StudentIds : AvailablePromotions(id) /\ Remember
    \/ \E id \in StudentIds, d \in DeptIds : Promote(id, d) /\ Remember
    \/ \E id \in StudentIds, d \in DeptIds : UpdateStudent(id, d, FALSE) /\ Remember
    \/ \E id \in DeptIds, n \in ClientLabels : PutDepartment(id, n, "complete") /\ Remember

SpecClient == InitClient /\ [][NextClient]_vars

(***************************************************************************)
(* The departments routes on a database that starts empty.                 *)
(***************************************************************************)
InitDepartments ==
    /\ InitNoExtract
    /\ InitDb
    /\ client = noClient

\* the bodies sent with an update: the unknown head teacher is sent with POST
UpdateFields == DeptFields \ {"unknownHeadTeacher"}

NextDepartments ==
    \/ \E n \in DeptNames, fields \in DeptFields : CreateDepartment(n, fields) /\ UNCHANGED client
    \/ \E id \in DeptIds, n \in DeptNames, fields \in UpdateFields :
            PutDepartment(id, n, fields) /\ UNCHANGED client
    \/ \E id \in DeptIds, n \in DeptNames, fields \in UpdateFields :
            PatchDepartment(id, n, fields) /\ UNCHANGED client
    \/ \E id \in DeptIds : DeleteDepartment(id) /\ UNCHANGED client

SpecDepartments == InitDepartments /\ [][NextDepartments]_vars

(***************************************************************************)
(* The extractor called on its own.                                        *)
(***************************************************************************)
InitExtract ==
    /\ label \in Labels \cup OtherLabels
    /\ name = label
    /\ extraction = [done |-> FALSE, result |-> null]
    /\ InitDb
    /\ client = noClient

\* the caller spells character i in the other letter case
FlipCase(i) ==
    /\ ~extraction.done
    /\ i \in 1..Len(name)
    /\ isLetter(name[i])
    /\ name' = [name EXCEPT ![i] = swapCase(name[i])]
    /\ UNCHANGED <<label, extraction, dbVars, httpVars>>

\* the caller puts a whitespace character in front of the name
PadStart(w) ==
    /\ ~extraction.done
    /\ leadingPad(name) < MaxPad
    /\ name' = <<w>> \o name
    /\ UNCHANGED <<label, extraction, dbVars, httpVars>>

\* the caller puts a whitespace character behind the name
PadEnd(w) ==
    /\ ~extraction.done
    /\ trailingPad(name) < MaxPad
    /\ name' = Append(name, w)
    /\ UNCHANGED <<label, extraction, dbVars, httpVars>>

\* the call extractLevelFromDepartmentName(name)
Extract ==
    /\ ~extraction.done
    /\ extraction' = [done |-> TRUE, result |-> extractLevelFromDepartmentName(name)]
    /\ UNCHANGED <<label, name, dbVars, httpVars>>

NextExtract ==
    \/ \E i \in 1..Len(name) : FlipCase(i) /\ UNCHANGED client
    \/ \E w \in PadChars : PadStart(w) /\ UNCHANGED client
    \/ \E w \in PadChars : PadEnd(w) /\ UNCHANGED client
    \/ Extract /\ UNCHANGED client

SpecExtract == InitExtract /\ [][NextExtract]_vars

(***************************************************************************)
(* The extractor called on names a caller spells from parts: text in front,*)
(* a word, a separator, a number and text behind.                          *)
(***************************************************************************)
\* the word in front of the number
Words ==
    {<<"C","l","a","s","s">>,
     <<"s","t","d">>,
     <<"G","r","a","d","e">>,
     <<>>}
\* what stands between the word and the number
Separators ==
    {<<" ">>,
     <<"-">>,
     <<>>}
\* the number: none, 0..19 in digits, or a Roman numeral I..XII
MaxClassNumber == 19
NumberTexts ==
    {<<>>} \cup {numberToString(n) : n \in 0..MaxClassNumber}
           \cup {romanNumerals[k] : k \in 1..12}
\* text in front of the word
Prefixes ==
    {<<>>,
     <<" ">>,
     <<"L","o","w","e","r"," ","N","u","r","s","e","r","y"," ">>,
     <<"U","p","p","e","r"," ","N","u","r","s","e","r","y"," ">>,
     <<"K","G","-","1"," ">>,
     <<"C","l","a","s","s"," ","3"," ">>,
     <<"S","T","D","-","1","2"," ">>}
\* text behind the number
Suffixes ==
    {<<>>,
     <<"\t">>,
     <<"A">>,
     <<" ","-"," ","S","e","c","t","i","o","n"," ","A">>,
     <<" ","C","l","a","s","s"," ","1","2">>,
     <<" ","k","g","2">>,
     <<" ","s","t","d","7">>,
     <<" ","a","n","d"," ","C","l","a","s","s"," ","I","I">>}
NameParts == [prefix : Prefixes, word : Words, sep : Separators,
              number : NumberTexts, suffix : Suffixes]
spell(p) == p.prefix \o p.word \o p.sep \o p.number \o p.suffix

InitNames ==
    /\ label \in NameParts
    /\ name = spell(label)
    /\ extraction = [done |-> FALSE, result |-> null]
    /\ InitDb
    /\ client = noClient

\* a name that is only word, separator and digits, typed in another letter
\* case
FlipCasePlain(i) ==
    /\ label.prefix = <<>>
    /\ label.suffix = <<>>
    /\ \A j \in 1..Len(label.number) : ~isLetter(label.number[j])
    /\ FlipCase(i)

NextNames ==
    \/ \E i \in 1..Len(name) : FlipCasePlain(i) /\ UNCHANGED client
    \/ Extract /\ UNCHANGED client

SpecNames == InitNames /\ [][NextNames]_vars

(***************************************************************************)
(* Properties of the extractor.                                            *)
(***************************************************************************)
\* the level the canonical table gives a label: 0, 1, 2, 3, and 3 + N for
\* Class N, written with an arabic number or a Roman numeral
TabulatedLevel(l) ==
    IF l = <<"L","o","w","e","r"," ","N","u","r","s","e","r","y">> THEN 0
    ELSE IF l = <<"U","p","p","e","r"," ","N","u","r","s","e","r","y">> THEN 1
    ELSE IF l = <<"K","G","-","1">> THEN 2
    ELSE IF l = <<"K","G","-","2">> THEN 3
    ELSE 3 + (CHOOSE n \in 1..12 :
                \/ l = classLabel(numberToString(n))
                \/ l = classLabel(romanNumerals[n]))

\* C1: for every non-Roman canonical label (Lower Nursery, Upper Nursery, KG-1,
\* KG-2, Class 1 .. Class 12), in any letter case and with whitespace in front
\* and behind, the extractor returns the tabulated level.
C1_NonRomanLabelLevel ==
    (extraction.done /\ label \in NamedLabels \cup ArabicLabels)
        => extraction.result = TabulatedLevel(label)

\* a call on "Class 12" in another letter case, padded on both sides
C1_Witness ==
    /\ extraction.done
    /\ label = classLabel(<<"1","2">>)
    /\ leadingPad(name) > 0
    /\ trailingPad(name) > 0
    /\ trim(name) # label
    /\ extraction.result = 15

\* C2: for every Roman-numeral canonical label Class I .. Class XII, in any
\* letter case and with whitespace around it, the extractor returns 3 + N.
C2_RomanLabelLevel ==
    (extraction.done /\ label \in RomanLabels)
        => extraction.result = TabulatedLevel(label)

\* C3: Class 10, Class 11 and Class 12 give 13, 14 and 15 and Class 1 gives 4;
\* a two-digit class number is never collapsed to level 4.
C3_TwoDigitClass ==
    extraction.done =>
        /\ label = classLabel(<<"1">>) => extraction.result = 4
        /\ label = classLabel(<<"1","0">>) => extraction.result = 13
        /\ label = classLabel(<<"1","1">>) => extraction.result = 14
        /\ label = classLabel(<<"1","2">>) => extraction.result = 15

\* a call on "Class 11" that returned 14
C3_Witness ==
    /\ extraction.done
    /\ label = classLabel(<<"1","1">>)
    /\ extraction.result = 14

(***************************************************************************)
(* Properties of promotion, one request after another.                     *)
(***************************************************************************)
\* the step answers a POST /students/:id/promote
PromoteStep == request'.op = "POST /students/:id/promote"

\* the step answers a GET /students/:id/available-promotions
AvailablePromotionsStep == request'.op = "GET /students/:id/available-promotions"

\* the level of the department student id is in; null when either is missing
LevelOfStudent(st, dp, id) ==
    IF \E s \in st, d \in dp : s.id = id /\ d.id = s.departmentId
    THEN (CHOOSE d \in dp : \E s \in st : s.id = id /\ d.id = s.departmentId).level
    ELSE null

\* the level of department id; null when it is missing
LevelOfDepartment(dp, id) ==
    IF \E d \in dp : d.id = id
    THEN (CHOOSE d \in dp : d.id = id).level
    ELSE null

\* student, current department and target department exist
AllThreeExist(id, departmentId) ==
    /\ LevelOfStudent(students, departments, id) # null
    /\ LevelOfDepartment(departments, departmentId) # null

\* C4: promoteStudent succeeds exactly when the student, the current department
\* and the target department exist and target.level > current.level; on success
\* the student's departmentId is the target's id and the updated student is returned.
C4_PromoteSucceedsExactlyWhen ==
    [][PromoteStep =>
        LET id == request'.id
            target == request'.departmentId
        IN  /\ response'.status = 200 <=>
                  /\ AllThreeExist(id, target)
                  /\ LevelOfDepartment(departments, target)
                        > LevelOfStudent(students, departments, id)
            /\ response'.status = 200 =>
                  \E s \in students' :
                      /\ s.id = id
                      /\ s.departmentId = target
                      /\ \E d \in departments' : d.id = target
                      /\ response'.data = <<s>>
    ]_vars

\* a promotion answered 200 whose student is in the target and is the data returned
C4_Witness ==
    /\ request.op = "POST /students/:id/promote"
    /\ response.status = 200
    /\ \E s \in students :
          /\ s.id = request.id
          /\ s.departmentId = request.departmentId
          /\ response.data = <<s>>

\* C5: when the target's level is less than or equal to the current level, the
\* promotion fails with 400, reports currentLevel and targetLevel, and leaves
\* the student's departmentId unchanged.
C5_InvalidTransition ==
    [][(/\ PromoteStep
        /\ AllThreeExist(request'.id, request'.departmentId)
        /\ LevelOfDepartment(departments, request'.departmentId)
              <= LevelOfStudent(students, departments, request'.id))
       => /\ response'.status = 400
          /\ response'.error = "Can only promote to a higher level department"
          /\ response'.currentLevel = LevelOfStudent(students, departments, request'.id)
          /\ response'.targetLevel = LevelOfDepartment(departments, request'.departmentId)
          /\ students' = students
    ]_vars

\* a promotion to a lower level refused with both levels in the answer
C5_Witness ==
    /\ request.op = "POST /students/:id/promote"
    /\ response.status = 400
    /\ response.targetLevel # null
    /\ response.targetLevel < response.currentLevel
    /\ LevelOfStudent(students, departments, request.id) = response.currentLevel

\* C7: with the departments' levels fixed, every successful promoteStudent call
\* strictly increases the level of the student's department.
C7_SuccessStrictlyIncreases ==
    [][(PromoteStep /\ response'.status = 200 /\ departments' = departments)
       => /\ LevelOfStudent(students, departments, request'.id) # null
          /\ LevelOfStudent(students', departments', request'.id)
                > LevelOfStudent(students, departments, request'.id)
    ]_vars

\* a promotion that succeeded and left the student above a department of level 2
C7_Witness ==
    /\ request.op = "POST /students/:id/promote"
    /\ response.status = 200
    /\ LevelOfStudent(students, departments, request.id) > 2
    /\ \E d \in departments : d.level = 2 /\ d.id # request.departmentId

\* C10: for an existing student, listAvailablePromotions returns exactly the
\* departments whose level is strictly greater than the current department's,
\* each once, ordered by non-decreasing level.
C10_AvailablePromotions ==
    [][(AvailablePromotionsStep /\ LevelOfStudent(students, departments, request'.id) # null)
       => LET data == response'.data
              currentLevel == LevelOfStudent(students, departments, request'.id)
          IN  /\ response'.status = 200
              /\ { data[i] : i \in 1..Len(data) }
                    = { d \in departments : d.level > currentLevel }
              /\ \A i, j \in 1..Len(data) : i # j => data[i] # data[j]
              /\ \A i \in 1..(Len(data) - 1) : data[i].level <= data[i + 1].level
    ]_vars

\* a listing of two departments of different levels, above the student's own
C10_Witness ==
    /\ request.op = "GET /students/:id/available-promotions"
    /\ response.status = 200
    /\ Len(response.data) = 2
    /\ response.data[1].level < response.data[2].level
    /\ response.currentLevel < response.data[1].level

(***************************************************************************)
(* The promotion check on every pair of levels.                            *)
(***************************************************************************)
\* C6: the promotion predicate is strict: with both departments in place, the
\* transition is allowed if and only if targetLevel > currentLevel, for every
\* pair of levels in 0..15; equal and lower targets are both refused.
C6_StrictPredicate ==
    [][(PromoteStep /\ AllThreeExist(request'.id, request'.departmentId))
       => LET currentLevel == LevelOfStudent(students, departments, request'.id)
              targetLevel == LevelOfDepartment(departments, request'.departmentId)
          IN  /\ currentLevel \in 0..15
              /\ targetLevel \in 0..15
              /\ targetLevel > currentLevel => response'.status = 200
              /\ targetLevel = currentLevel => response'.status = 400
              /\ targetLevel < currentLevel => response'.status = 400
    ]_vars

\* a promotion between two departments of level 15 each, refused
C6_Witness ==
    /\ request.op = "POST /students/:id/promote"
    /\ response.status = 400
    /\ response.currentLevel = 15
    /\ response.targetLevel = 15
    /\ Cardinality({ d \in departments : d.level = 15 }) = 2

(***************************************************************************)
(* Properties of promotion when requests interleave.                       *)
(***************************************************************************)
\* request r gets its answer in this step
Answered(r) == reqs[r].pc # "done" /\ reqs'[r].pc = "done"

\* request r is answered 404 with this error and no student is written
NotFound(r, error) ==
    /\ reqs'[r].pc = "done"
    /\ reqs'[r].response.status = 404
    /\ reqs'[r].response.error = error
    /\ students' = students

\* C8: when two promoteStudent requests for the same student interleave between
\* their persistence calls, every update performed moves the student to a
\* department of strictly greater level than the one held just before the update.
C8_UpdateMovesStrictlyForward ==
    [][\A r \in Reqs :
          (/\ reqs[r].pc = "update"
           /\ Answered(r)
           /\ reqs'[r].response.status = 200
           /\ LevelOfStudent(students, departments, reqs[r].id) # null)
          => LevelOfStudent(students', departments', reqs[r].id)
                > LevelOfStudent(students, departments, reqs[r].id)
    ]_vars

\* C9: promoteStudent fails with 404 when the student is absent, when the
\* student's current department record is missing, or when the target
\* department is absent; the checks are made in that order and no student
\* record is modified.
C9_NotFoundInOrder ==
    [][\A r \in Reqs :
          LET studentAbsent == \A s \in students : s.id # reqs[r].id
              currentMissing == \A d \in departments : d.id # reqs[r].studentDepartmentId
              targetAbsent == \A d \in departments : d.id # reqs[r].departmentId
          IN  /\ (reqs[r].pc = "selectStudent" /\ reqs'[r] # reqs[r] /\ studentAbsent)
                    => NotFound(r, "Student not found")
              /\ (reqs[r].pc = "selectCurrentDept" /\ reqs'[r] # reqs[r] /\ currentMissing)
                    => NotFound(r, "Current department not found")
              /\ (reqs[r].pc = "selectTargetDept" /\ reqs'[r] # reqs[r] /\ targetAbsent)
                    => NotFound(r, "Target department not found")
              /\ (Answered(r) /\ reqs'[r].response.status = 404)
                    => \/ /\ reqs[r].pc = "selectStudent"
                          /\ studentAbsent
                          /\ reqs'[r].response.error = "Student not found"
                       \/ /\ reqs[r].pc = "selectCurrentDept"
                          /\ reqs[r].studentDepartmentId # 0
                          /\ currentMissing
                          /\ reqs'[r].response.error = "Current department not found"
                       \/ /\ reqs[r].pc = "selectTargetDept"
                          /\ reqs[r].currentLevel # null
                          /\ targetAbsent
                          /\ reqs'[r].response.error = "Target department not found"
    ]_vars

\* a request that found its student and then no department for it, while the
\* other request was told that its target is absent
C9_Witness ==
    \E r, q \in Reqs :
        /\ reqs[r].pc = "done"
        /\ reqs[r].response.status = 404
        /\ reqs[r].response.error = "Current department not found"
        /\ reqs[r].studentDepartmentId # 0
        /\ reqs[q].pc = "done"
        /\ reqs[q].response.error = "Target department not found"

(***************************************************************************)
(* Properties of the extractor on spelled names.                           *)
(***************************************************************************)
\* the name as the rules see it
Normalized == toLowerCase(trim(name))

\* some pattern of the set P is contained in the text s
ContainsAny(s, P) == \E p \in P : includes(s, p)

\* the pattern sets of the nursery and KG rules, in the order they are tried;
\* rule k gives level k - 1
NurseryKgRules ==
    << {lowerNurseryPattern}, {upperNurseryPattern}, kg1Patterns, kg2Patterns >>

\* the lower-cased pattern forms of the Roman numeral with index k (I = 0)
RomanForms(k) == { toLowerCase(p) : p \in patterns(romanNumerals[k + 1]) }

\* the rules of each tier whose patterns the text s contains
NurseryKgMatching(s) == { k \in 1..4 : ContainsAny(s, NurseryKgRules[k]) }
ArabicMatching(s) == { n \in 1..12 : ContainsAny(s, patterns(numberToString(n))) }
RomanMatching(s) == { k \in 0..11 : ContainsAny(s, RomanForms(k)) }

Least(S) == CHOOSE x \in S : \A y \in S : x <= y
Greatest(S) == CHOOSE x \in S : \A y \in S : x >= y

\* C15: whatever string it is given, the extractor returns an integer in
\* 0..15 or null
C15_TotalInRange ==
    extraction.done => extraction.result \in (0..15) \cup {null}

\* a number outside the level table still gets a level of the table
C15_Witness ==
    /\ extraction.done
    /\ label = [prefix |-> <<>>, word |-> <<"C","l","a","s","s">>, sep |-> <<" ">>,
                number |-> numberToString(MaxClassNumber), suffix |-> <<>>]
    /\ extraction.result \in 0..15

\* a suffix that starts with a character other than a digit and in which no
\* rule of the extractor finds a pattern
PlainSuffix(s) ==
    /\ s # <<>>
    /\ s[1] \notin { DigitChars[d] : d \in 1..10 }
    /\ NurseryKgMatching(toLowerCase(s)) = {}
    /\ ArabicMatching(toLowerCase(s)) = {}
    /\ RomanMatching(toLowerCase(s)) = {}

\* C16: "Class N", N in 1..12, followed by a suffix that starts with a
\* non-digit and holds no recognized pattern, has level 3 + N
C16_ClassWithSuffix ==
    \A n \in 1..12 :
        ( /\ extraction.done
          /\ label.prefix = <<>>
          /\ label.word = <<"C","l","a","s","s">>
          /\ label.sep = <<" ">>
          /\ label.number = numberToString(n)
          /\ PlainSuffix(label.suffix) )
        => extraction.result = 3 + n

\* "Class 8 - Section A" has level 11
C16_Witness ==
    /\ extraction.done
    /\ name = <<"C","l","a","s","s"," ","8"," ","-"," ","S","e","c","t","i","o","n"," ","A">>
    /\ PlainSuffix(label.suffix)
    /\ extraction.result = 11

\* C17: a name whose normalized form contains no recognized pattern has no
\* level; "Grade 5", the empty string and a whitespace-only string are such
C17_NoPatternNoMatch ==
    extraction.done =>
        /\ ( /\ NurseryKgMatching(Normalized) = {}
             /\ ArabicMatching(Normalized) = {}
             /\ RomanMatching(Normalized) = {} )
           => extraction.result = null
        /\ name = <<"G","r","a","d","e"," ","5">> => extraction.result = null
        /\ trim(name) = <<>> => extraction.result = null

\* "Grade 5" has no level
C17_Witness ==
    /\ extraction.done
    /\ name = <<"G","r","a","d","e"," ","5">>
    /\ extraction.result = null

\* C18: each of "class N", "class-N", "classN", "std N", "std-N", "stdN" as
\* the whole name, N in 1..12, in any letter case, has level 3 + N
C18_SixSpellings ==
    \A n \in 1..12 :
        ( /\ extraction.done
          /\ label.prefix = <<>>
          /\ label.suffix = <<>>
          /\ label.word \in {<<"C","l","a","s","s">>, <<"s","t","d">>}
          /\ label.number = numberToString(n) )
        => extraction.result = 3 + n

\* "STD12" has level 15
C18_Witness ==
    /\ extraction.done
    /\ name = <<"S","T","D","1","2">>
    /\ extraction.result = 15

\* C19: the nursery and KG rules are tried in their order before the class
\* rules, and the class numbers from 12 down: a name with a nursery or KG
\* pattern gets the level of the first such rule even if a class pattern is
\* in it, and otherwise a name with class patterns gets 3 + the greatest
\* number matching
C19_FirstRuleWins ==
    extraction.done =>
        /\ NurseryKgMatching(Normalized) # {}
           => extraction.result = Least(NurseryKgMatching(Normalized)) - 1
        /\ ( /\ NurseryKgMatching(Normalized) = {}
             /\ ArabicMatching(Normalized) # {} )
           => extraction.result = 3 + Greatest(ArabicMatching(Normalized))

\* a name holding an "upper nursery", a "kg2" and a class pattern has level 1
C19_Witness ==
    /\ extraction.done
    /\ NurseryKgMatching(Normalized) = {2, 4}
    /\ ArabicMatching(Normalized) # {}
    /\ extraction.result = 1

DepartmentWriteStep ==
    request'.op \in {"POST /departments", "PUT /departments/:id",
                     "PATCH /departments/:id"}

\* C13: a POST, PUT or PATCH of a department for whose name the extractor
\* returned no level is answered 400 and writes nothing: no row is inserted
\* and no stored name or level changes
C13_NoMatchRejected ==
    [][( /\ DepartmentWriteStep
         /\ extraction'.done
         /\ extraction'.result = null )
       => /\ response'.status = 400
          /\ departments' = departments
          /\ nextDepartmentId' = nextDepartmentId]_vars

\* a PATCH of a stored department was rejected for its name
C13_Witness ==
    /\ request.op = "PATCH /departments/:id"
    /\ extraction = [done |-> TRUE, result |-> null]
    /\ extractLevelFromDepartmentName(name) = null
    /\ response.status = 400
    /\ response.error = levelFormatError
    /\ selectDepartmentById(departments, request.id) # {}

\* C14: every stored department has the level the extractor gives its name,
\* a level in 0..15
C14_LevelDerivedFromName ==
    \A d \in departments :
        /\ d.level = extractLevelFromDepartmentName(d.name)
        /\ d.level \in 0..15

\* a department created as "Class 12" and renamed "Lower Nursery" has level 0
C14_Witness ==
    \E d \in departments :
        /\ d.code = departmentCode(classLabel(<<"1","2">>))
        /\ d.name = <<"L","o","w","e","r"," ","N","u","r","s","e","r","y">>
        /\ d.level = 0

(***************************************************************************)
(* Properties of promotion seen by a caller.                               *)
(***************************************************************************)
\* the student with this id is stored in the department with this id
StudentIn(st, id, departmentId) ==
    \E s \in st : s.id = id /\ s.departmentId = departmentId

\* C11: promoting is not idempotent: when promoteStudent(s, T) succeeded and
\* no table was written since, promoteStudent(s, T) again fails with
\* "Can only promote to a higher level department" and the student stays in T
C11_NotIdempotent ==
    [][( /\ PromoteStep
         /\ client.promoted.id # 0
         /\ request'.id = client.promoted.id
         /\ request'.departmentId = client.promoted.departmentId )
       => /\ response'.status = 400
          /\ response'.error = "Can only promote to a higher level department"
          /\ students' = students
          /\ StudentIn(students', request'.id, request'.departmentId)
    ]_vars

\* the promotion that succeeded was asked for again and refused
C11_Witness ==
    /\ request.op = "POST /students/:id/promote"
    /\ client.promoted = [id |-> request.id, departmentId |-> request.departmentId]
    /\ response.status = 400
    /\ response.currentLevel = response.targetLevel
    /\ StudentIn(students, request.id, request.departmentId)

\* C12: a department T the caller was listed as an available promotion of
\* a student is checked again when promoteStudent(s, T) runs: if by then the
\* level of T is no longer greater than the level of the student's
\* department, the promotion fails with
\* "Can only promote to a higher level department"
C12_RevalidatedAtPromote ==
    [][( /\ PromoteStep
         /\ request'.id = client.listedFor
         /\ request'.departmentId \in client.listed
         /\ AllThreeExist(request'.id, request'.departmentId)
         /\ LevelOfDepartment(departments, request'.departmentId)
               <= LevelOfStudent(students, departments, request'.id) )
       => /\ response'.status = 400
          /\ response'.error = "Can only promote to a higher level department"
          /\ students' = students
    ]_vars

\* a listed department, since renamed to a lower level than the student's,
\* was refused
C12_Witness ==
    /\ request.op = "POST /students/:id/promote"
    /\ request.id = client.listedFor
    /\ request.departmentId \in client.listed
    /\ response.status = 400
    /\ response.error = "Can only promote to a higher level department"
    /\ response.targetLevel < response.currentLevel

(***************************************************************************)
(* The two copies of the extractor.                                        *)
(***************************************************************************)
\* C21: the copy of the extractor beside the schema counts the class numbers
\* down like the one in src/lib: it gives 13, 14, 15 for Class 10, 11, 12 and
\* the same level as src/lib for every name holding a nursery, KG or arabic
\* class or std pattern
C21_CopiesAgree ==
    extraction.done =>
        /\ \A n \in 10..12 :
              name = classLabel(numberToString(n))
                 => schemaExtractLevelFromDepartmentName(name) = 3 + n
        /\ ( \/ NurseryKgMatching(Normalized) # {}
             \/ ArabicMatching(Normalized) # {} )
           => schemaExtractLevelFromDepartmentName(name) = extraction.result

\* C22: the level, or no level, of a name does not change when letters are
\* typed in the other case and whitespace is put in front of or behind it;
\* whitespace inside the name is not normalized
C22_NormalizationInvariant ==
    extraction.done =>
        /\ extraction.result = extractLevelFromDepartmentName(label)
        /\ label = <<"C","l","a","s","s"," "," ","1">> => extraction.result = null

\* a name typed in other letters and padded on both sides keeps level 15
C22_Witness ==
    /\ extraction.done
    /\ Len(name) = Len(label) + 2
    /\ trim(name) # label
    /\ extraction.result = 15

\* C29: a class number outside 1..12 is not refused for its range: "Class N"
\* with N in 13..19 as the only class token has level 4, because it contains
\* "class 1", and "Class 0" has no level
C29_OutOfRangeNumbers ==
    ( /\ extraction.done
      /\ label.prefix = <<>>
      /\ label.word = <<"C","l","a","s","s">>
      /\ label.sep = <<" ">>
      /\ label.suffix = <<>> \/ PlainSuffix(label.suffix) )
    => /\ \A n \in 13..19 :
             label.number = numberToString(n) => extraction.result = 4
       /\ label.number = numberToString(0) => extraction.result = null

\* "Class 19" has level 4
C29_Witness ==
    /\ extraction.done
    /\ name = classLabel(numberToString(19))
    /\ extraction.result = 4

\* ---------------------------------------------------------------------------
\* The reference table of department names and levels
\* ---------------------------------------------------------------------------

\* getValidDepartmentLevels: the object literal, an entry per property in
\* the order they are written
getValidDepartmentLevels ==
    << [key |-> <<"L","o","w","e","r"," ","N","u","r","s","e","r","y">>,
        level |-> 0],
       [key |-> <<"U","p","p","e","r"," ","N","u","r","s","e","r","y">>,
        level |-> 1],
       [key |-> <<"K","G","-","1">>,
        level |-> 2],
       [key |-> <<"K","G","-","2">>,
        level |-> 3],
       [key |-> <<"C","l","a","s","s"," ","1"," ","(","o","r"," ","C","l","a","s","s"," ","I",")">>,
        level |-> 4],
       [key |-> <<"C","l","a","s","s"," ","2"," ","(","o","r"," ","C","l","a","s","s"," ","I","I",")">>,
        level |-> 5],
       [key |-> <<"C","l","a","s","s"," ","3"," ","(","o","r"," ","C","l","a","s","s"," ","I","I","I",")">>,
        level |-> 6],
       [key |-> <<"C","l","a","s","s"," ","4"," ","(","o","r"," ","C","l","a","s","s"," ","I","V",")">>,
        level |-> 7],
       [key |-> <<"C","l","a","s","s"," ","5"," ","(","o","r"," ","C","l","a","s","s"," ","V",")">>,
        level |-> 8],
       [key |-> <<"C","l","a","s","s"," ","6"," ","(","o","r"," ","C","l","a","s","s"," ","V","I",")">>,
        level |-> 9],
       [key |-> <<"C","l","a","s","s"," ","7"," ","(","o","r"," ","C","l","a","s","s"," ","V","I","I",")">>,
        level |-> 10],
       [key |-> <<"C","l","a","s","s"," ","8"," ","(","o","r"," ","C","l","a","s","s"," ","V","I","I","I",")">>,
        level |-> 11],
       [key |-> <<"C","l","a","s","s"," ","9"," ","(","o","r"," ","C","l","a","s","s"," ","I","X",")">>,
        level |-> 12],
       [key |-> <<"C","l","a","s","s"," ","1","0"," ","(","o","r"," ","C","l","a","s","s"," ","X",")">>,
        level |-> 13],
       [key |-> <<"C","l","a","s","s"," ","1","1"," ","(","o","r"," ","C","l","a","s","s"," ","X","I",")">>,
        level |-> 14],
       [key |-> <<"C","l","a","s","s"," ","1","2"," ","(","o","r"," ","C","l","a","s","s"," ","X","I","I",")">>,
        level |-> 15] >>

\* GET /departments/levels/reference
LevelsReference ==
    /\ request' = [noRequest EXCEPT !.op = "GET /departments/levels/reference"]
    /\ response' = jsonData(200, getValidDepartmentLevels)
    /\ UNCHANGED <<extractVars, dbVars, reqs>>

\* the caller takes a key of the table as the department name
InitReference ==
    /\ label \in { getValidDepartmentLevels[i].key : i \in DOMAIN getValidDepartmentLevels }
    /\ name = label
    /\ extraction = [done |-> FALSE, result |-> null]
    /\ InitDb
    /\ client = noClient

NextReference ==
    \/ LevelsReference /\ UNCHANGED client
    \/ \E w \in PadChars : PadStart(w) /\ UNCHANGED client
    \/ \E w \in PadChars : PadEnd(w) /\ UNCHANGED client
    \/ Extract /\ UNCHANGED client

SpecReference == InitReference /\ [][NextReference]_vars

\* C28: the reference table has 16 entries whose levels are 0..15, each once
\* and under its own key, GET /levels/reference answers with that table on
\* every call, and the extractor gives every key the level the table gives it
C28_TableMatchesExtractor ==
    LET table == getValidDepartmentLevels
    IN  /\ Len(table) = 16
        /\ { table[i].level : i \in DOMAIN table } = 0..15
        /\ \A i, j \in DOMAIN table : table[i].key = table[j].key => i = j
        /\ request.op = "GET /departments/levels/reference"
              => response.status = 200 /\ response.data = table
        /\ extraction.done =>
              \A i \in DOMAIN table :
                  label = table[i].key => extraction.result = table[i].level

\* the key written for Class 10 has level 13
C28_Witness ==
    /\ request.op = "GET /departments/levels/reference"
    /\ extraction.done
    /\ name = <<"C","l","a","s","s"," ","1","0"," ","(","o","r"," ","C","l","a","s","s"," ","X",")">>
    /\ extraction.result = 13

(***************************************************************************)
(* The students routes on a school whose departments are not renamed:      *)
(* departments 1 and 2 are "Class 1", 3 and 4 are "Class 2", and so on,    *)
(* and every student starts in the last department, which has the highest  *)
(* level.  A student found in a lower department was moved there.          *)
(***************************************************************************)
FrameStudentIds == 1..(NumStudents + 1)

frameNaming == [k \in DeptIds |-> classLabel(numberToString((k + 1) \div 2))]

InitFrame ==
    /\ departments = departmentsNamed(frameNaming)
    /\ nextDepartmentId = NumDepts + 1
    /\ students = { studentRow(id, NumDepts) : id \in FrameStudentIds }
    /\ nextStudentId = NumStudents + 2
    /\ request = noRequest
    /\ response = jsonData(0, <<>>)
    /\ reqs \in [Reqs -> {idle}]
    /\ InitNoExtract
    /\ client = noClient

NextFrame ==
    \/ \E id \in 1..(NumStudents + 2) : AvailablePromotions(id) /\ UNCHANGED client
    \/ \E id \in 1..(NumStudents + 2), d \in 0..(NumDepts + 1) :
           Promote(id, d) /\ UNCHANGED client
    \/ \E id \in 1..(NumStudents + 2), d \in 0..(NumDepts + 1), e \in BOOLEAN :
           UpdateStudent(id, d, e) /\ UNCHANGED client

SpecFrame == InitFrame /\ [][NextFrame]_vars

\* C23: listing the available promotions and promoting change no department; a
\* promotion that fails changes no record; a promotion that succeeds changes
\* the departmentId of the promoted student and nothing of any other student
C23_PromotionFrame ==
    [][ /\ (PromoteStep \/ AvailablePromotionsStep)
           => /\ departments' = departments
              /\ nextDepartmentId' = nextDepartmentId
              /\ nextStudentId' = nextStudentId
        /\ AvailablePromotionsStep => students' = students
        /\ (PromoteStep /\ response'.status # 200) => students' = students
        /\ (PromoteStep /\ response'.status = 200)
           => /\ { s.id : s \in students' } = { s.id : s \in students }
              /\ \A s \in students : s.id # request'.id => s \in students'
              /\ StudentIn(students', request'.id, request'.departmentId)
      ]_vars

\* a student was promoted while another student stayed in a different department
C23_Witness ==
    /\ request.op = "POST /students/:id/promote"
    /\ response.status = 200
    /\ \E s \in students :
          s.id # request.id /\ s.departmentId # request.departmentId

\* C24: in one state, for an existing student whose department exists and an
\* existing department T, the listing of available promotions for the student
\* contains T exactly when promoting the student to T would succeed
C24_ListedIffPromotable ==
    \A id \in FrameStudentIds, T \in DeptIds :
        AllThreeExist(id, T)
        => ( ENABLED ( /\ AvailablePromotions(id)
                       /\ \E i \in DOMAIN response'.data : response'.data[i].id = T )
             <=>
             ENABLED ( /\ Promote(id, T)
                       /\ response'.status = 200 ) )

\* a listing was answered; one department it holds can be promoted to and a
\* department it leaves out cannot
C24_Witness ==
    /\ request.op = "GET /students/:id/available-promotions"
    /\ response.status = 200
    /\ \E i \in DOMAIN response.data :
          ENABLED (Promote(request.id, response.data[i].id) /\ response'.status = 200)
    /\ \E T \in DeptIds :
          /\ \A i \in DOMAIN response.data : response.data[i].id # T
          /\ ~ENABLED (Promote(request.id, T) /\ response'.status = 200)

\* the step answers a PUT /students/:id
UpdateStudentStep == request'.op = "PUT /students/:id"

\* C25: PUT /students/:id keeps the student's departmentId when the body has
\* none; when the body has one, of an existing department, the update
\* succeeds whatever the two levels are and the student is in that department
C25_UpdateIgnoresLevels ==
    [][ UpdateStudentStep =>
          /\ departments' = departments
          /\ \A s \in students : s.id # request'.id => s \in students'
          /\ (response'.status = 200 /\ request'.departmentId = 0)
             => students' = students
          /\ (response'.status = 200 /\ request'.departmentId # 0)
             => StudentIn(students', request'.id, request'.departmentId)
          /\ ( /\ AllThreeExist(request'.id, request'.departmentId)
               /\ response'.error # "Email already exists" )
             => response'.status = 200
      ]_vars

\* a PUT moved a student below the level of the department every student
\* started in
C25_Witness ==
    /\ request.op = "PUT /students/:id"
    /\ response.status = 200
    /\ StudentIn(students, request.id, request.departmentId)
    /\ LevelOfStudent(students, departments, request.id)
          < LevelOfDepartment(departments, NumDepts)

(***************************************************************************)
(* One student in a school that has a department for every row of the      *)
(* reference table, levels 0 to 15, none of them renamed.  The caller      *)
(* counts the promotions it was told succeeded, and asks for the listing   *)
(* where at most MaxListed departments are above the student.              *)
(***************************************************************************)
MaxListed == 2

ladderNaming ==
    [k \in DOMAIN getValidDepartmentLevels |-> getValidDepartmentLevels[k].key]

LadderDeptIds == DOMAIN ladderNaming

\* the caller counts a promotion answered with 200
CountPromotion ==
    client' =
        IF request'.op = "POST /students/:id/promote" /\ response'.status = 200
        THEN [client EXCEPT !.promotions = @ + 1]
        ELSE client

InitLadder ==
    /\ departments = departmentsNamed(ladderNaming)
    /\ nextDepartmentId = Len(getValidDepartmentLevels) + 1
    /\ \E d \in LadderDeptIds : students = {studentRow(1, d)}
    /\ nextStudentId = 2
    /\ request = noRequest
    /\ response = jsonData(0, <<>>)
    /\ reqs \in [Reqs -> {idle}]
    /\ InitNoExtract
    /\ client = noClient

NextLadder ==
    \/ /\ Cardinality({ d \in departments :
                           d.level > LevelOfStudent(students, departments, 1) }) <= MaxListed
       /\ AvailablePromotions(1)
       /\ UNCHANGED client
    \/ \E d \in LadderDeptIds : Promote(1, d) /\ CountPromotion

SpecLadder == InitLadder /\ [][NextLadder]_vars

\* C26: with the levels fixed in 0..15, the promotions of one student that
\* succeed, one after another, number at most 15; for a student in a department
\* of level 15 the listing is empty and every promotion is refused
C26_AtMostFifteenPromotions ==
    [][ /\ client'.promotions <= 15
        /\ LevelOfStudent(students, departments, 1) = 15
           => /\ PromoteStep => response'.status # 200 /\ students' = students
              /\ AvailablePromotionsStep
                 => response'.status = 200 /\ response'.data = <<>>
      ]_vars

\* after 15 promotions the student has level 15 and the listing is empty
C26_Witness ==
    /\ client.promotions = 15
    /\ LevelOfStudent(students, departments, 1) = 15
    /\ request.op = "GET /students/:id/available-promotions"
    /\ response.status = 200
    /\ response.data = <<>>

(***************************************************************************)
(* Renaming departments that hold students.  Every department starts as    *)
(* "Class 12", level 15, and one student is in one of them; students are   *)
(* neither promoted nor moved, so a student found at a lower level is      *)
(* there because its department was renamed.                               *)
(***************************************************************************)
renameNaming == [k \in DeptIds |-> classLabel(numberToString(12))]

InitRename ==
    /\ departments = departmentsNamed(renameNaming)
    /\ nextDepartmentId = NumDepts + 1
    /\ \E d \in DeptIds : students = {studentRow(1, d)}
    /\ nextStudentId = 2
    /\ request = noRequest
    /\ response = jsonData(0, <<>>)
    /\ reqs \in [Reqs -> {idle}]
    /\ InitNoExtract
    /\ client = noClient

NextRename ==
    \/ \E id \in 1..(NumDepts + 1), n \in DeptNames, fields \in UpdateFields :
           PutDepartment(id, n, fields) /\ UNCHANGED client
    \/ \E id \in 1..(NumDepts + 1), n \in DeptNames, fields \in UpdateFields :
           PatchDepartment(id, n, fields) /\ UNCHANGED client

SpecRename == InitRename /\ [][NextRename]_vars

\* C27: a PUT or PATCH of a stored department whose new name has a level is
\* carried out whether or not students are assigned to it: the stored level
\* becomes the level of the new name, no student row changes, and the level
\* of the department of each assigned student is the new one
C27_RenameMovesStudentsLevel ==
    [][ request'.op \in {"PUT /departments/:id", "PATCH /departments/:id"} =>
          /\ students' = students
          /\ ( /\ extraction'.done
               /\ extraction'.result # null
               /\ departmentExists(departments, request'.id) )
             => /\ response'.status = 200
                /\ LevelOfDepartment(departments', request'.id) = extraction'.result
                /\ \A s \in students :
                      s.departmentId = request'.id
                      => LevelOfStudent(students', departments', s.id) = extraction'.result
      ]_vars

\* the department of the student, level 15 at the start, was renamed by a
\* PATCH and the student is now at level 0
C27_Witness ==
    /\ request.op = "PATCH /departments/:id"
    /\ response.status = 200
    /\ StudentIn(students, 1, request.id)
    /\ LevelOfStudent(students, departments, 1) = 0

====
